---- MODULE Spec2Model ----
(***************************************************************************)
(* The verification pipeline of gh-verifier: the fetch stage (two          *)
(* implementations are in the repository), the plan-extraction stage and   *)
(* the build script, over the files they share in the working directory.   *)
(***************************************************************************)
EXTENDS Integers, Sequences, FiniteSets, TLC

VARIABLES
    stage,          \* where the run is: idle, fetch, extract, build, ok, failed
    fetchImpl,      \* which fetch script this run uses: "onchain" or "text"
    proposalJson,   \* the file proposal.json: {} when absent, {record} otherwise
    buildStepsJson, \* the file build-steps.json
    outputWasm,     \* the file output/canister.wasm
    icDir,          \* the directory ic (the clone)
    ledgerReply,    \* what get_proposal_info answered in this run ({} before)
    response,       \* what the inference service answered in this run ({} before)
    exitCode,       \* exit code of each stage of this run ({} before it ran)
    inferCalled,    \* the inference service was called in this run
    wrote,          \* the files this run has written
    sh,             \* the build script's shell: position, variables, errexit
    executed,       \* the commands the build script has eval'ed, with their status
    listed,         \* the candidate files the diagnostic search printed
    rival           \* the stage of a concurrent run for another proposal

vars == << stage, fetchImpl, proposalJson, buildStepsJson, outputWasm, icDir,
           ledgerReply, response, exitCode, inferCalled, wrote, sh, executed,
           listed, rival >>

-----------------------------------------------------------------------------
(* Bounds of the model *)

\* longest proposal summary, in text segments
MaxSegs == 2
\* longest inferred plan, in steps
MaxSteps == 2

-----------------------------------------------------------------------------
(* Optional values (null | value) and absent files *)

None == {}
Some(x) == {x}
The(s) == CHOOSE x \in s : TRUE

Min(S) == CHOOSE x \in S : \A y \in S : x <= y
Max(S) == CHOOSE x \in S : \A y \in S : x >= y

Rep(c, n) == [i \in 1..n |-> c]

RECURSIVE Flatten(_)
Flatten(ss) == IF ss = << >> THEN << >> ELSE Head(ss) \o Flatten(Tail(ss))

RECURSIVE SeqsUpTo(_, _)
SeqsUpTo(S, n) ==
    IF n = 0 THEN { << >> }
    ELSE LET shorter == SeqsUpTo(S, n - 1)
         IN  shorter \cup { Append(s, x) : s \in shorter, x \in S }

\* JavaScript truthiness of a string | null
Truthy(o) == o # None /\ The(o) # << >>

-----------------------------------------------------------------------------
(* Text: a string is a sequence of one-character strings *)

LowerHex == {"0","1","2","3","4","5","6","7","8","9","a","b","c","d","e","f"}
UpperHex == {"A","B","C","D","E","F"}
HexDigit == << "0","1","2","3","4","5","6","7","8","9","a","b","c","d","e","f" >>

\* [a-f0-9] under the i flag
HexChars == LowerHex \cup UpperHex
IsHex(c) == c \in HexChars
\* \w: hex digits, the other letters the texts use, and the underscore
NonHexWordChars == {"w","s","m","o","u","l","h","g","_","U","n","t","i"}
IsWord(c) == IsHex(c) \/ c \in NonHexWordChars

ToLowerChar(c) ==
    CASE c = "A" -> "a" [] c = "B" -> "b" [] c = "C" -> "c"
      [] c = "D" -> "d" [] c = "E" -> "e" [] c = "F" -> "f"
      [] c = "W" -> "w" [] c = "S" -> "s" [] c = "M" -> "m"
      [] OTHER -> c
ToLower(t) == [i \in 1..Len(t) |-> ToLowerChar(t[i])]

\* \b between position i and position i+1 of t (0 <= i <= Len(t))
WordBoundary(t, i) ==
    LET before == i >= 1 /\ IsWord(t[i])
        after  == i + 1 <= Len(t) /\ IsWord(t[i + 1])
    IN  before # after

\* n hex characters start at position i of t
HexRunAt(t, i, n) == i + n - 1 <= Len(t) /\ \A k \in i..(i + n - 1) : IsHex(t[k])

CommitHexLen == 40
WasmHexLen == 64

\* /\b([a-f0-9]{n})\b/gi matches at position i
BoundedHexAt(t, i, n) ==
    /\ WordBoundary(t, i - 1)
    /\ HexRunAt(t, i, n)
    /\ WordBoundary(t, i + n - 1)

\* text.match(/.../g): the start positions of the matches
CommitMatches(t) == { i \in 1..Len(t) : BoundedHexAt(t, i, CommitHexLen) }

\* match[0] of a global match: the leftmost match, as it stands in the text
FirstMatch_Last(t, starts, n) == SubSeq(t, Max(starts), Max(starts) + n - 1)
FirstMatch(t, starts, n) == SubSeq(t, Min(starts), Min(starts) + n - 1)

extractCommitHash(t) ==
    LET starts == CommitMatches(t)
    IN  IF starts = {} THEN None ELSE Some(FirstMatch(t, starts, CommitHexLen))

\* the word w (lower case) stands at position i of t, in any letter case
WordAt(t, i, w) ==
    i + Len(w) - 1 <= Len(t) /\ \A k \in 1..Len(w) : ToLowerChar(t[i + k - 1]) = w[k]

Labels == { <<"w","a","s","m">>, <<"m","o","d","u","l","e">>,
            <<"s","h","a","2","5","6">> }

\* /(?:wasm|module|sha256)[^\n]*?([a-f0-9]{64})/gi: the capture positions j
\* reachable from a label at position i, on the same line
LabelledAt(t, i) ==
    IF \A w \in Labels : ~WordAt(t, i, w) THEN {}
    ELSE LET w == CHOOSE x \in Labels : WordAt(t, i, x)
         IN  { j \in (i + Len(w))..Len(t) :
                 /\ HexRunAt(t, j, WasmHexLen)
                 /\ \A k \in (i + Len(w))..(j - 1) : t[k] # "\n" }

extractWasmHash(t) ==
    LET labelStarts == { i \in 1..Len(t) : LabelledAt(t, i) # {} }
        generic == { i \in 1..Len(t) : BoundedHexAt(t, i, WasmHexLen) }
    IN  IF labelStarts # {}
        THEN LET j == Min(LabelledAt(t, Min(labelStarts)))
             IN  Some(SubSeq(t, j, j + WasmHexLen - 1))
        ELSE IF generic = {} THEN None
        ELSE Some(FirstMatch(t, generic, WasmHexLen))

\* b.toString(16).padStart(2, '0')
ByteHex(b) == << HexDigit[(b \div 16) + 1], HexDigit[(b % 16) + 1] >>

bytesToHex(bytes) == Flatten([i \in 1..Len(bytes) |-> ByteHex(bytes[i])])

-----------------------------------------------------------------------------
(* The run: the stages in order, a failed stage ends the run *)

NextStage(s) ==
    CASE s = "fetch" -> "extract"
      [] s = "extract" -> "build"
      [] s = "build" -> "ok"

\* the stage s exited with code
After(s, code) == IF code = 0 THEN NextStage(s) ELSE "failed"

NoShell == [pc |-> "none", COMMIT_HASH |-> None, WASM_OUTPUT_PATH |-> "",
            STEPS |-> << >>, next |-> 1, errexit |-> TRUE, fetched |-> FALSE]

FreshRun ==
    /\ ledgerReply = None
    /\ response = None
    /\ exitCode = [fetch |-> None, extract |-> None, build |-> None]
    /\ inferCalled = FALSE
    /\ wrote = {}
    /\ sh = NoShell
    /\ executed = << >>
    /\ listed = {}

-----------------------------------------------------------------------------
(* Stage 1: fetch the proposal *)

Untitled == <<"U","n","t","i","t","l","e","d">>
Newline == << "\n" >>

\* proposal.title?.[0] || 'Untitled'
TitleOf(proposal) ==
    IF Truthy(proposal.title) THEN The(proposal.title) ELSE Untitled

\* `${title}\n${summary}\n${url}`
CombinedText(title, summary, url) == title \o Newline \o summary \o Newline \o url

\* principal.toText()
toText(principal) == principal.text

\* installCode.wasm_module_hash?.[0] ? bytesToHex(...) : null
PayloadWasmHash(proposal) ==
    IF proposal.action # None /\ The(proposal.action).wasm_module_hash # None
    THEN Some(bytesToHex(The(The(proposal.action).wasm_module_hash)))
    ELSE None

PayloadCanisterId(proposal) ==
    IF proposal.action # None /\ The(proposal.action).canister_id # None
    THEN Some(toText(The(The(proposal.action).canister_id)))
    ELSE None

\* the checks of main before the proposal is read
FetchRejects(arg, reply) ==
    \/ arg = None                   \* usage
    \/ reply.kind = "throw"         \* the query failed: main().catch
    \/ reply.kind = "notfound"
    \/ reply.kind = "empty"

\* console.error('Usage: ...'); process.exit(1)
UsageExitCode == 1
\* the exit code of a fetch that stops before the proposal is read
FetchFailCode(arg) == IF arg = None THEN UsageExitCode ELSE 1

\* the record main of the on-chain fetch script builds
OnchainRecord(arg, proposal) ==
    LET title == TitleOf(proposal)
        text  == CombinedText(title, proposal.summary, proposal.url)
    IN  [proposalId |-> The(arg), title |-> title, summary |-> proposal.summary,
         url |-> proposal.url, commitHash |-> extractCommitHash(text),
         expectedWasmHash |-> PayloadWasmHash(proposal),
         canisterId |-> PayloadCanisterId(proposal)]

\* the record main of the text-only fetch script builds (it has no canisterId)
TextRecord(arg, proposal) ==
    LET title == TitleOf(proposal)
        text  == CombinedText(title, proposal.summary, proposal.url)
    IN  [proposalId |-> The(arg), title |-> title, summary |-> proposal.summary,
         url |-> proposal.url, commitHash |-> extractCommitHash(text),
         expectedWasmHash |-> extractWasmHash(text),
         canisterId |-> None]

\* if (!expectedWasmHash) process.exit(1), before the record is written
HashMissing(rec) == ~Truthy(rec.expectedWasmHash)

FetchExit(code) ==
    /\ exitCode' = [exitCode EXCEPT !.fetch = Some(code)]
    /\ stage' = After("fetch", code)

\* main of the on-chain fetch script (InstallCode payload)
FetchOnchain(arg, reply) ==
    /\ stage = "fetch"
    /\ fetchImpl = "onchain"
    /\ ledgerReply' = IF arg = None THEN None ELSE Some(reply)
    /\ IF FetchRejects(arg, reply)
       THEN /\ FetchExit(FetchFailCode(arg))
            /\ UNCHANGED << proposalJson, wrote >>
       ELSE LET rec == OnchainRecord(arg, The(reply.proposal))
            IN  IF HashMissing(rec)
                THEN /\ FetchExit(1)
                     /\ UNCHANGED << proposalJson, wrote >>
                ELSE /\ proposalJson' = Some(rec)
                     /\ wrote' = wrote \cup {"proposal.json"}
                     /\ FetchExit(0)
    /\ UNCHANGED << rival, fetchImpl, buildStepsJson, outputWasm, icDir, response,
                    inferCalled, sh, executed, listed >>

\* main of src/fetch-proposal.ts (hash recovered from the text)
FetchText(arg, reply) ==
    /\ stage = "fetch"
    /\ fetchImpl = "text"
    /\ ledgerReply' = IF arg = None THEN None ELSE Some(reply)
    /\ IF FetchRejects(arg, reply)
       THEN /\ FetchExit(FetchFailCode(arg))
            /\ UNCHANGED << proposalJson, wrote >>
       ELSE /\ proposalJson' = Some(TextRecord(arg, The(reply.proposal)))
            /\ wrote' = wrote \cup {"proposal.json"}
            /\ FetchExit(0)
    /\ UNCHANGED << rival, fetchImpl, buildStepsJson, outputWasm, icDir, response,
                    inferCalled, sh, executed, listed >>


-----------------------------------------------------------------------------
(* Stage 2: infer the build plan *)

(* An inference response is a sequence of chunks: a code fence ```, the     *)
(* language tag json, a line break, a run of prose, or the text of a JSON   *)
(* value.  A JSON value is kept as what JSON.parse makes of its text.       *)
NoBody == [top |-> "none", steps |-> [t |-> "missing", v |-> << >>],
           path |-> [t |-> "missing", v |-> ""]]
Fence == [k |-> "fence", body |-> NoBody]
Lang == [k |-> "lang", body |-> NoBody]
Nl == [k |-> "nl", body |-> NoBody]
Prose == [k |-> "prose", body |-> NoBody]
Json(b) == [k |-> "json", body |-> b]

IsSpace(chunk) == chunk.k = "nl"

RECURSIVE TrimLeft(_)
TrimLeft(r) == IF r # << >> /\ IsSpace(Head(r)) THEN TrimLeft(Tail(r)) ELSE r
RECURSIVE TrimRight(_)
TrimRight(r) ==
    IF r # << >> /\ IsSpace(r[Len(r)]) THEN TrimRight(SubSeq(r, 1, Len(r) - 1)) ELSE r
\* String.prototype.trim
Trim(r) == TrimRight(TrimLeft(r))

DropIf(r, kind) == IF r # << >> /\ Head(r).k = kind THEN Tail(r) ELSE r
DropLastIf(r, kind) ==
    IF r # << >> /\ r[Len(r)].k = kind THEN SubSeq(r, 1, Len(r) - 1) ELSE r

\* .replace(/^```(?:json)?\n?/, '')
StripOpeningFence(r) == DropIf(DropIf(DropIf(r, "fence"), "lang"), "nl")
\* .replace(/\n?```$/, '')
StripClosingFence(r) ==
    IF r # << >> /\ r[Len(r)].k = "fence"
    THEN DropLastIf(DropLastIf(r, "fence"), "nl")
    ELSE r

\* jsonStr of parseGeminiResponse: the trimmed response without its fences
JsonStr(r) ==
    LET t == Trim(r)
    IN  IF t # << >> /\ Head(t).k = "fence"
        THEN StripClosingFence(StripOpeningFence(t))
        ELSE t

\* JSON.parse: {} when it throws, {value} otherwise
JsonParse(r) ==
    LET t == Trim(r)
    IN  IF Len(t) = 1 /\ t[1].k = "json" THEN Some(t[1].body) ELSE None

DefaultOutputPath == "output.wasm"

\* Array.isArray(parsed.steps); reading .steps of null throws as well
StepsIsArray_OrMissing(parsed) ==
    parsed.top = "obj" /\ parsed.steps.t \in {"arr", "missing"}
StepsIsArray(parsed) == parsed.top = "obj" /\ parsed.steps.t = "arr"

\* parsed.wasmOutputPath || 'output.wasm'
PathOrDefault(parsed) ==
    IF parsed.path.t = "str" /\ parsed.path.v # "" THEN parsed.path.v
    ELSE DefaultOutputPath

\* parseGeminiResponse: {} when it throws
parseGeminiResponse(r) ==
    LET parsed == JsonParse(JsonStr(r))
    IN  IF parsed = None THEN None
        ELSE IF ~StepsIsArray(The(parsed)) THEN None
        ELSE Some([steps |-> The(parsed).steps.v,
                   wasmOutputPath |-> PathOrDefault(The(parsed))])

\* if (!proposalData.commitHash) process.exit(1)
CommitMissing_Never(proposalData) == FALSE
CommitMissing(proposalData) == ~Truthy(proposalData.commitHash)

ExtractExit(code) ==
    /\ exitCode' = [exitCode EXCEPT !.extract = Some(code)]
    /\ stage' = After("extract", code)

\* main of extract-build-steps.ts.  env: "nokey" (GEMINI_API_KEY unset),
\* "apierror" (generateContent throws), "ok" (r is response.text || '')
ExtractMain(env, r) ==
    /\ stage = "extract"
    /\ IF proposalJson = None \/ CommitMissing(The(proposalJson)) \/ env = "nokey"
       THEN /\ ExtractExit(1)
            /\ UNCHANGED << buildStepsJson, wrote, response, inferCalled >>
       ELSE /\ inferCalled' = TRUE
            /\ IF env = "apierror"
               THEN /\ ExtractExit(1)
                    /\ UNCHANGED << buildStepsJson, wrote, response >>
               ELSE /\ response' = Some(r)
                    /\ LET plan == parseGeminiResponse(r)
                       IN  IF plan = None
                           THEN /\ ExtractExit(1)
                                /\ UNCHANGED << buildStepsJson, wrote >>
                           ELSE /\ buildStepsJson' =
                                     Some([commitHash |-> The(proposalJson).commitHash,
                                           steps |-> The(plan).steps,
                                           wasmOutputPath |-> The(plan).wasmOutputPath])
                                /\ wrote' = wrote \cup {"build-steps.json"}
                                /\ ExtractExit(0)
    /\ UNCHANGED << rival, fetchImpl, proposalJson, outputWasm, icDir, ledgerReply,
                    sh, executed, listed >>


-----------------------------------------------------------------------------
(* Stage 3: scripts/build.sh *)

\* the commits the upstream repository can serve
CommitA == Rep("a", CommitHexLen)
CommitB == Rep("b", CommitHexLen)
UpstreamCommits == { CommitA, CommitB }

\* what each command line does when eval'ed: its possible exit statuses and
\* the file a successful run leaves in the working tree
ExitStatuses(line) == IF line = "make" THEN {0, 2} ELSE {0}
Produces(line) == IF line = "make" THEN {"out.wasm"} ELSE {}
\* the commit the working tree is at after the command: git checkout - goes
\* back to what the clone had checked out, the tip of the default branch
\* (head None)
HeadAfter(line, head) == IF line = "git checkout -" THEN None ELSE head

RECURSIVE StripTrailingEmpty(_)
StripTrailingEmpty(ls) ==
    IF ls # << >> /\ ls[Len(ls)] = ""
    THEN StripTrailingEmpty(SubSeq(ls, 1, Len(ls) - 1))
    ELSE ls

\* STEPS=$(node -e "...steps.forEach(s => console.log(s))") read line by line
\* from a here-string: a step is the sequence of its lines
Lines(steps) ==
    LET ls == StripTrailingEmpty(Flatten(steps))
    IN  IF ls = << >> THEN << "" >> ELSE ls

BuildExit(code) ==
    /\ exitCode' = [exitCode EXCEPT !.build = Some(code)]
    /\ stage' = After("build", code)

\* lines 7-44: the checks, the clone, the fetch and checkout of the commit.
\* net: "ok", "clonefail" or "fetchfail"
BuildStart(net) ==
    /\ stage = "build"
    /\ sh.pc = "none"
    /\ IF buildStepsJson = None \/ proposalJson = None
       THEN /\ BuildExit(1)
            /\ sh' = [sh EXCEPT !.pc = "exited"]
            /\ UNCHANGED icDir
       ELSE LET plan == The(buildStepsJson)
                vars0 == [sh EXCEPT !.COMMIT_HASH = plan.commitHash,
                                    !.WASM_OUTPUT_PATH = plan.wasmOutputPath]
            IN  IF net = "clonefail"
                THEN /\ icDir' = None
                     /\ sh' = [vars0 EXCEPT !.pc = "exited"]
                     /\ BuildExit(128)
                ELSE IF net = "fetchfail" \/ plan.commitHash \cap UpstreamCommits = {}
                THEN /\ icDir' = Some([head |-> None, files |-> {}])
                     /\ sh' = [vars0 EXCEPT !.pc = "exited"]
                     /\ BuildExit(128)
                ELSE /\ icDir' = Some([head |-> plan.commitHash, files |-> {}])
                     /\ sh' = [vars0 EXCEPT !.pc = "loop", !.fetched = TRUE,
                                            !.STEPS = Lines(plan.steps)]
                     /\ UNCHANGED << exitCode, stage >>
    /\ UNCHANGED << rival, fetchImpl, proposalJson, buildStepsJson, outputWasm,
                    ledgerReply, response, inferCalled, wrote, executed, listed >>

\* set -e: a failing command ends the script, unless errexit was turned off
HaltsOn(rc, errexit) == rc # 0 /\ errexit

\* lines 47-53: one turn of the loop over the lines of STEPS
BuildStep(rc) ==
    /\ stage = "build"
    /\ sh.pc = "loop"
    /\ sh.next <= Len(sh.STEPS)
    /\ LET line == sh.STEPS[sh.next]
       IN  /\ rc \in ExitStatuses(line)
           /\ IF line = ""
              THEN /\ sh' = [sh EXCEPT !.next = @ + 1]
                   /\ UNCHANGED << executed, icDir, exitCode, stage >>
              ELSE /\ executed' = Append(executed, [line |-> line, rc |-> rc])
                   /\ icDir' = IF rc = 0
                               THEN Some([The(icDir) EXCEPT
                                            !.files = @ \cup Produces(line),
                                            !.head = HeadAfter(line, @)])
                               ELSE icDir
                   /\ IF HaltsOn(rc, sh.errexit)
                      THEN /\ sh' = [sh EXCEPT !.pc = "exited"]
                           /\ BuildExit(rc)
                      ELSE /\ sh' = [sh EXCEPT !.next = @ + 1,
                                       !.errexit = IF line = "set +e" THEN FALSE ELSE @]
                           /\ UNCHANGED << exitCode, stage >>
    /\ UNCHANGED << rival, fetchImpl, proposalJson, buildStepsJson, outputWasm,
                    ledgerReply, response, inferCalled, wrote, listed >>

\* a build script that falls back on a file the search found
ArtifactAt_Guess(dir, path) ==
    IF path \in dir.files THEN Some(path)
    ELSE IF dir.files # {} THEN Some(CHOOSE f \in dir.files : TRUE)
    ELSE None
\* [ -f "$WASM_OUTPUT_PATH" ]
ArtifactAt(dir, path) == IF path \in dir.files THEN Some(path) ELSE None

\* lines 58-74: copy the artifact, or list the .wasm files and fail
BuildFinish ==
    /\ stage = "build"
    /\ sh.pc = "loop"
    /\ sh.next > Len(sh.STEPS)
    /\ LET found == ArtifactAt(The(icDir), sh.WASM_OUTPUT_PATH)
       IN  IF found # None
           THEN /\ outputWasm' = Some([commit |-> The(icDir).head, path |-> The(found)])
                /\ wrote' = wrote \cup {"output/canister.wasm"}
                /\ BuildExit(0)
                /\ UNCHANGED listed
           ELSE /\ listed' = The(icDir).files
                /\ BuildExit(1)
                /\ UNCHANGED << outputWasm, wrote >>
    /\ sh' = [sh EXCEPT !.pc = "exited"]
    /\ UNCHANGED << rival, fetchImpl, proposalJson, buildStepsJson, icDir,
                    ledgerReply, response, inferCalled, executed >>


-----------------------------------------------------------------------------
(* A concurrent run for another proposal, started in the same working       *)
(* directory: the same scripts, followed through the fetch and plan stages, *)
(* where they write proposal.json and build-steps.json                      *)

\* main of the fetch script, run by the concurrent run
RivalFetch(arg, reply) ==
    /\ rival = "fetch"
    /\ IF FetchRejects(arg, reply)
       THEN /\ rival' = After("fetch", 1)
            /\ UNCHANGED proposalJson
       ELSE LET rec == IF fetchImpl = "onchain"
                       THEN OnchainRecord(arg, The(reply.proposal))
                       ELSE TextRecord(arg, The(reply.proposal))
            IN  IF fetchImpl = "onchain" /\ HashMissing(rec)
                THEN /\ rival' = After("fetch", 1)
                     /\ UNCHANGED proposalJson
                ELSE /\ proposalJson' = Some(rec)
                     /\ rival' = After("fetch", 0)
    /\ UNCHANGED << stage, fetchImpl, buildStepsJson, outputWasm, icDir,
                    ledgerReply, response, exitCode, inferCalled, wrote, sh,
                    executed, listed >>

\* main of extract-build-steps.ts, run by the concurrent run
RivalExtract(env, r) ==
    /\ rival = "extract"
    /\ IF proposalJson = None \/ CommitMissing(The(proposalJson)) \/ env # "ok"
       THEN /\ rival' = After("extract", 1)
            /\ UNCHANGED buildStepsJson
       ELSE LET plan == parseGeminiResponse(r)
            IN  IF plan = None
                THEN /\ rival' = After("extract", 1)
                     /\ UNCHANGED buildStepsJson
                ELSE /\ buildStepsJson' =
                          Some([commitHash |-> The(proposalJson).commitHash,
                                steps |-> The(plan).steps,
                                wasmOutputPath |-> The(plan).wasmOutputPath])
                     /\ rival' = After("extract", 0)
    /\ UNCHANGED << stage, fetchImpl, proposalJson, outputWasm, icDir,
                    ledgerReply, response, exitCode, inferCalled, wrote, sh,
                    executed, listed >>


-----------------------------------------------------------------------------
(* Inputs *)

\* process.argv[2]
Args == { None, Some("132") }

\* the pieces proposal summaries are made of
LowerToken == Rep("a", CommitHexLen)
UpperToken == Rep("B", CommitHexLen)
ShortRun == Rep("e", CommitHexLen - 1)
WasmToken == Rep("c", WasmHexLen)
Space == << " " >>
WasmLabel == <<"w","a","s","m">>
Segments == { LowerToken, UpperToken, ShortRun, WasmToken, Space, WasmLabel, Newline }

Summaries == { Flatten(ss) : ss \in SeqsUpTo(Segments, MaxSegs) }
Titles == { None, Some(<< >>), Some(Rep("D", CommitHexLen)) }
Urls == { << >>, Rep("f", CommitHexLen) }

HashAB == Rep(171, 32)
Hash0A == Rep(10, 32)
Canister == [text |-> "rwlgt-iiaaa-aaaaa-aaaaa-cai"]
Actions == { None,
             Some([wasm_module_hash |-> None, canister_id |-> None]),
             Some([wasm_module_hash |-> Some(HashAB), canister_id |-> Some(Canister)]),
             Some([wasm_module_hash |-> Some(Hash0A), canister_id |-> None]) }

Failure(kind) == [kind |-> kind, proposal |-> None]
Found(proposal) == [kind |-> "ok", proposal |-> Some(proposal)]
Failures == { Failure("throw"), Failure("notfound"), Failure("empty") }

AllReplies ==
    Failures \cup
    { Found([title |-> t, summary |-> s, url |-> u, action |-> a]) :
        t \in Titles, s \in Summaries, u \in Urls, a \in Actions }

\* the proposals of the pipeline runs
InstallA == [title |-> None, summary |-> WasmLabel \o Space \o LowerToken,
             url |-> << >>, action |-> Some([wasm_module_hash |-> Some(HashAB),
                                             canister_id |-> Some(Canister)])]
InstallNoCommit == [InstallA EXCEPT !.summary = WasmLabel]
MotionA == [InstallA EXCEPT !.action = None]
InstallUpper == [InstallA EXCEPT !.summary = UpperToken \o Space \o WasmToken]
InstallB == [InstallA EXCEPT !.summary = CommitB, !.action =
                Some([wasm_module_hash |-> Some(Hash0A), canister_id |-> Some(Canister)])]
PipelineReplies ==
    { Failure("notfound"), Found(InstallA), Found(InstallNoCommit), Found(MotionA),
      Found(InstallUpper) }

\* the step strings plans are made of, each as its lines
StepStrings ==
    { << "make" >>, << "set +e" >>, << "" >>, << "git checkout -" >>,
      << "make", "make" >> }
Plans == SeqsUpTo(StepStrings, MaxSteps)
Paths == { "out.wasm", "other.wasm" }

Object(steps, path) == [top |-> "obj", steps |-> steps, path |-> path]
StepsValues ==
    { [t |-> k, v |-> << >>] : k \in {"missing", "str", "null"} }
    \cup { [t |-> "arr", v |-> p] : p \in Plans }
PathValues ==
    { [t |-> "missing", v |-> ""], [t |-> "str", v |-> ""] }
    \cup { [t |-> "str", v |-> p] : p \in Paths }
Bodies ==
    { Object(st, pa) : st \in StepsValues, pa \in PathValues }
    \cup { [NoBody EXCEPT !.top = k] : k \in {"null", "num", "arr"} }

\* the shapes of a response around the JSON text
Hole == [k |-> "hole", body |-> NoBody]
Wrappers ==
    { << Hole >>, << Nl, Hole, Nl >>,
      << Fence, Lang, Nl, Hole, Nl, Fence >>, << Fence, Nl, Hole, Nl, Fence >>,
      << Fence, Lang, Nl, Hole >>, << Fence, Lang, Nl, Hole, Nl, Fence, Nl, Prose >>,
      << Prose, Nl, Hole >>, << Hole, Nl, Prose >>,
      << Fence, Lang, Nl, Prose, Nl, Fence >>, << Fence, Lang, Nl, Fence >>,
      << Prose >>, << >> }
Fill(w, b) == [i \in 1..Len(w) |-> IF w[i].k = "hole" THEN Json(b) ELSE w[i]]
AllResponses == { Fill(w, b) : w \in Wrappers, b \in Bodies }

Arr(plan) == [t |-> "arr", v |-> plan]
Str(p) == [t |-> "str", v |-> p]
PipelineResponses ==
    { << Json(Object(Arr(<< <<"make">> >>), Str("out.wasm"))) >>,
      << Fence, Lang, Nl,
         Json(Object(Arr(<< <<"set +e">>, <<"make">>, <<"make">> >>), Str("out.wasm"))),
         Nl, Fence >>,
      << Json(Object(Arr(<< >>), Str("out.wasm"))) >>,
      << Json(Object(Arr(<< <<"git checkout -">>, <<"make">> >>), Str("out.wasm"))) >>,
      << Json(Object(Arr(<< <<"make">> >>), [t |-> "missing", v |-> ""])) >>,
      << Json(Object([t |-> "missing", v |-> << >>], Str("out.wasm"))) >>,
      << Prose >> }

Envs == { "nokey", "apierror", "ok" }
Nets == { "ok", "clonefail", "fetchfail" }

-----------------------------------------------------------------------------
(* The pipeline, run after run in one working directory *)

EmptyDisk ==
    /\ proposalJson = None
    /\ buildStepsJson = None
    /\ outputWasm = None
    /\ icDir = None

Init ==
    /\ stage = "idle"
    /\ fetchImpl = "onchain"
    /\ EmptyDisk
    /\ FreshRun
    /\ rival = "none"

\* a new run starts in the directory the earlier runs left
StartRun(impl) ==
    /\ stage \in {"idle", "ok", "failed"}
    /\ stage' = "fetch"
    /\ fetchImpl' = impl
    /\ ledgerReply' = None
    /\ response' = None
    /\ exitCode' = [fetch |-> None, extract |-> None, build |-> None]
    /\ inferCalled' = FALSE
    /\ wrote' = {}
    /\ sh' = NoShell
    /\ executed' = << >>
    /\ listed' = {}
    /\ UNCHANGED << proposalJson, buildStepsJson, outputWasm, icDir, rival >>

Next ==
    \/ \E impl \in {"onchain", "text"} : StartRun(impl)
    \/ \E arg \in Args, reply \in PipelineReplies : FetchOnchain(arg, reply)
    \/ \E arg \in Args, reply \in PipelineReplies : FetchText(arg, reply)
    \/ \E env \in Envs, r \in PipelineResponses : ExtractMain(env, r)
    \/ \E net \in Nets : BuildStart(net)
    \/ \E rc \in {0, 2} : BuildStep(rc)
    \/ BuildFinish

Spec == Init /\ [][Next]_vars

(* The fetch stage alone, over every proposal text within the bounds *)

InitFetch ==
    /\ stage = "fetch"
    /\ fetchImpl \in {"onchain", "text"}
    /\ EmptyDisk
    /\ FreshRun
    /\ rival = "none"

NextFetch ==
    \/ \E arg \in Args, reply \in AllReplies : FetchOnchain(arg, reply)
    \/ \E arg \in Args, reply \in AllReplies : FetchText(arg, reply)

SpecFetch == InitFetch /\ [][NextFetch]_vars


(* Two runs at once in one working directory: this run for proposal 132    *)
(* and a concurrent run for proposal 133                                   *)

RivalArg == Some("133")
RivalReplies == { Failure("notfound"), Found(InstallB) }
RivalResponses ==
    { << Json(Object(Arr(<< <<"make">> >>), Str("other.wasm"))) >>, << Prose >> }

InitPair ==
    /\ stage = "fetch"
    /\ fetchImpl \in {"onchain", "text"}
    /\ EmptyDisk
    /\ FreshRun
    /\ rival = "fetch"

NextPair ==
    \/ \E reply \in PipelineReplies : FetchOnchain(Some("132"), reply)
    \/ \E reply \in PipelineReplies : FetchText(Some("132"), reply)
    \/ \E env \in Envs, r \in PipelineResponses : ExtractMain(env, r)
    \/ \E net \in Nets : BuildStart(net)
    \/ \E rc \in {0, 2} : BuildStep(rc)
    \/ BuildFinish
    \/ \E reply \in RivalReplies : RivalFetch(RivalArg, reply)
    \/ \E env \in Envs, r \in RivalResponses : RivalExtract(env, r)

SpecPair == InitPair /\ [][NextPair]_vars

(* The plan and build stages of one run, over every response and plan      *)
(* within the bounds, after a fetch stage that succeeded                   *)

InitPlan ==
    /\ stage = "extract"
    /\ fetchImpl = "onchain"
    /\ \E p \in {InstallA, InstallNoCommit} :
          /\ proposalJson = Some(OnchainRecord(Some("132"), p))
          /\ ledgerReply = Some(Found(p))
    /\ buildStepsJson = None
    /\ outputWasm = None
    /\ icDir = None
    /\ response = None
    /\ exitCode = [fetch |-> Some(0), extract |-> None, build |-> None]
    /\ inferCalled = FALSE
    /\ wrote = {"proposal.json"}
    /\ sh = NoShell
    /\ executed = << >>
    /\ listed = {}
    /\ rival = "none"

NextPlan ==
    \/ \E env \in Envs, r \in AllResponses : ExtractMain(env, r)
    \/ \E net \in Nets : BuildStart(net)
    \/ \E rc \in {0, 2} : BuildStep(rc)
    \/ BuildFinish

SpecPlan == InitPlan /\ [][NextPlan]_vars


-----------------------------------------------------------------------------
(* What the claims speak of *)

\* this run has written the file
Wrote(file) == file \in wrote

\* the stage has exited with a nonzero code
Failed(code) == code # None /\ The(code) # 0

\* the maximal runs of word characters of t, as <<first, last>>
RunStarts(t) == { i \in 1..Len(t) : IsWord(t[i]) /\ (i = 1 \/ ~IsWord(t[i - 1])) }
RunEnd(t, i) == Min({ j \in i..Len(t) : j = Len(t) \/ ~IsWord(t[j + 1]) })
WordRuns(t) == { << i, RunEnd(t, i) >> : i \in RunStarts(t) }

\* the 40-hex-character tokens of t, by their first position
Tokens(t) ==
    { run[1] : run \in { r \in WordRuns(t) :
                           /\ r[2] - r[1] + 1 = CommitHexLen
                           /\ \A k \in r[1]..r[2] : IsHex(t[k]) } }
TokenAt(t, i) == SubSeq(t, i, i + CommitHexLen - 1)

\* the text the fetch stage of this run searched
RecordText == CombinedText(The(proposalJson).title, The(proposalJson).summary,
                           The(proposalJson).url)

\* the JSON values the response holds
JsonBodies(r) == { r[i].body : i \in { k \in 1..Len(r) : r[k].k = "json" } }
HasProse(r) == \E i \in 1..Len(r) : r[i].k = "prose"

\* the build has not been started in this run
NoBuild == sh.pc = "none" /\ executed = << >> /\ exitCode.build = None

\* C1: an artifact is written by a run only if every earlier stage of that
\* run succeeded: proposal found, expected hash obtained, commit resolved,
\* plan accepted, commit fetched, every step exited zero, declared path there.
C1_FailClosed ==
    Wrote("output/canister.wasm") =>
        /\ ledgerReply # None /\ The(ledgerReply).kind = "ok"
        /\ Wrote("proposal.json")
        /\ Truthy(The(proposalJson).expectedWasmHash)
        /\ Truthy(The(proposalJson).commitHash)
        /\ Wrote("build-steps.json") /\ exitCode.extract = Some(0)
        /\ sh.fetched
        /\ \A k \in 1..Len(executed) : executed[k].rc = 0
        /\ sh.WASM_OUTPUT_PATH \in The(icDir).files

\* the fetch stage of this run ended with no commit reference in the record
CommitUnresolved == Wrote("proposal.json") /\ The(proposalJson).commitHash = None

\* C2: once the fetch stage has recorded a null commitHash, the run never
\* calls the inference service and never starts the build script.
C2_NoCommitNoInferenceNoBuild ==
    CommitUnresolved =>
        /\ ~inferCalled
        /\ NoBuild
        /\ exitCode.extract # None => stage = "failed"

C2_Witness ==
    /\ CommitUnresolved
    /\ exitCode.extract = Some(1)
    /\ stage = "failed"

\* the response holds a JSON object whose steps is the empty array
HasEmptySteps(r) ==
    \E b \in JsonBodies(r) : b.top = "obj" /\ b.steps.t = "arr" /\ b.steps.v = << >>

\* C3: a response whose steps is an empty array is rejected: the plan stage
\* fails and writes no build-steps.json.
C3_EmptyStepsRejected ==
    (response # None /\ HasEmptySteps(The(response))) =>
        /\ Failed(exitCode.extract)
        /\ ~Wrote("build-steps.json")

\* the response is not JSON (no JSON text in it, or prose around it), or its
\* JSON is not an object whose steps is an array
Malformed(r) ==
    \/ JsonBodies(r) = {}
    \/ HasProse(r)
    \/ \E b \in JsonBodies(r) : b.top # "obj" \/ b.steps.t # "arr"

\* C4: a response that is not JSON, or whose steps is missing or not an
\* array, makes the plan stage exit nonzero without writing build-steps.json,
\* and no build is started.
C4_MalformedResponseRejected ==
    (response # None /\ Malformed(The(response))) =>
        /\ Failed(exitCode.extract)
        /\ ~Wrote("build-steps.json")
        /\ buildStepsJson = None
        /\ stage = "failed"
        /\ NoBuild

C4_Witness ==
    /\ response = Some(<< Fence, Lang, Nl, Prose, Nl, Fence >>)
    /\ exitCode.extract = Some(1)
    /\ stage = "failed"

\* C5: every field of an accepted plan and of the proposal record is the
\* collaborator's: the output path and the steps are those of the response,
\* the title is that of the ledger's proposal.
C5_NoDefaults ==
    /\ Wrote("build-steps.json") =>
         \E b \in JsonBodies(The(response)) :
            /\ b.path.t = "str"
            /\ b.path.v = The(buildStepsJson).wasmOutputPath
            /\ b.steps.t = "arr"
            /\ b.steps.v = The(buildStepsJson).steps
    /\ Wrote("proposal.json") =>
         The(The(ledgerReply).proposal).title = Some(The(proposalJson).title)

\* C6: a step that exits nonzero is the last command the build runs, no
\* artifact is copied and the build stage fails.
C6_HaltOnFailedStep ==
    \A k \in 1..Len(executed) :
        executed[k].rc # 0 =>
            /\ k = Len(executed)
            /\ ~Wrote("output/canister.wasm")
            /\ sh.pc = "exited"
            /\ Failed(exitCode.build)

\* every step ran and succeeded, and no file is at the declared path
StepsDoneNoArtifact ==
    /\ sh.pc = "exited"
    /\ sh.fetched
    /\ sh.next > Len(sh.STEPS)
    /\ \A k \in 1..Len(executed) : executed[k].rc = 0
    /\ sh.WASM_OUTPUT_PATH \notin The(icDir).files

C8_SingleTokenLowercased ==
    Wrote("proposal.json") =>
        LET toks == Tokens(RecordText)
        IN  /\ Cardinality(toks) = 1 =>
                 The(proposalJson).commitHash
                     = Some(ToLower(TokenAt(RecordText, The(toks))))
            /\ toks = {} => The(proposalJson).commitHash = None

\* the text holds several 40-hex tokens, not all the same
SeveralTokens(t) ==
    \E i, j \in Tokens(t) : TokenAt(t, i) # TokenAt(t, j)

\* C9: of several distinct 40-hex tokens in title, summary and url, the
\* recorded commit is the first in the text.
C9_FirstTokenWins ==
    (Wrote("proposal.json") /\ SeveralTokens(RecordText)) =>
        The(proposalJson).commitHash
            = Some(TokenAt(RecordText, Min(Tokens(RecordText))))

C9_Witness ==
    /\ Wrote("proposal.json")
    /\ Cardinality(Tokens(RecordText)) = 3
    /\ The(proposalJson).summary = LowerToken
    /\ The(proposalJson).commitHash = Some(The(proposalJson).title)

\* the action payload of the ledger's proposal carries a hash and a canister
PayloadWellFormed(proposal) ==
    /\ proposal.action # None
    /\ The(proposal.action).wasm_module_hash # None
    /\ The(proposal.action).canister_id # None

\* C10: with a well-formed payload, the recorded expected hash and canister
\* id are the payload's, whatever hash the free text shows.
C10_PayloadWins ==
    (Wrote("proposal.json") /\ PayloadWellFormed(The(The(ledgerReply).proposal))) =>
        LET action == The(The(The(ledgerReply).proposal).action)
        IN  /\ The(proposalJson).expectedWasmHash
                 = Some(bytesToHex(The(action.wasm_module_hash)))
            /\ The(proposalJson).canisterId = Some(The(action.canister_id).text)


\* neither the action payload nor the free text of the ledger's proposal
\* yields an expected hash
HashUnavailable(proposal) ==
    /\ PayloadWasmHash(proposal) = None
    /\ extractWasmHash(CombinedText(TitleOf(proposal), proposal.summary,
                                    proposal.url)) = None

\* C11: when the expected hash cannot be determined, the fetch stage exits
\* nonzero without writing proposal.json and no later stage runs.
C11_NoHashStopsAtFetch ==
    (/\ exitCode.fetch # None
     /\ ledgerReply # None
     /\ The(ledgerReply).kind = "ok"
     /\ HashUnavailable(The(The(ledgerReply).proposal))) =>
        /\ Failed(exitCode.fetch)
        /\ ~Wrote("proposal.json")
        /\ stage = "failed"
        /\ ~inferCalled
        /\ NoBuild


\* what this run's own proposal and its own inference response determine
OwnCommit ==
    LET p == The(The(ledgerReply).proposal)
    IN  extractCommitHash(CombinedText(TitleOf(p), p.summary, p.url))
OwnPlan == The(parseGeminiResponse(The(response)))

\* C12: with a run for another proposal going on at the same time, the build
\* of this run uses the commit, the steps and the output path derived from
\* its own proposal and its own response, and its artifact is of that commit.
C12_RunsIndependent ==
    sh.fetched =>
        /\ sh.COMMIT_HASH = OwnCommit
        /\ sh.STEPS = Lines(OwnPlan.steps)
        /\ sh.WASM_OUTPUT_PATH = OwnPlan.wasmOutputPath
        /\ Wrote("output/canister.wasm") => The(outputWasm).commit = OwnCommit


\* the fetch stage of this run was started without a proposal identifier
UsageError == exitCode.fetch # None /\ ledgerReply = None
\* the exit code of the stage that ended this run
RunExitCode ==
    The(IF exitCode.build # None THEN exitCode.build
        ELSE IF exitCode.extract # None THEN exitCode.extract
        ELSE exitCode.fetch)

\* C13: a usage error exits nonzero, and a run that fails for any other
\* reason exits with a nonzero code different from the usage error's, so the
\* two can be told apart from the exit code alone.
C13_DistinctExitCodes ==
    /\ UsageError => RunExitCode # 0
    /\ (stage = "failed" /\ ~UsageError) => RunExitCode \notin {0, UsageExitCode}


\* the step loop ran to its end and every command it ran exited zero
AllStepsSucceeded ==
    /\ sh.fetched
    /\ sh.pc = "exited"
    /\ sh.next > Len(sh.STEPS)
    /\ \A k \in 1..Len(executed) : executed[k].rc = 0

\* C14: when every step succeeds, the commands the build script ran are the
\* steps of build-steps.json, one command per step, equal to it, in order.
C14_CommandsAreTheSteps ==
    AllStepsSucceeded =>
        LET steps == The(buildStepsJson).steps
        IN  /\ Len(executed) = Len(steps)
            /\ \A k \in 1..Len(steps) :
                  k <= Len(executed) => steps[k] = << executed[k].line >>

\* C15: once the build script has exited, on whatever path, the cloned
\* working directory ic is gone.
C15_WorkingDirectoryRemoved ==
    sh.pc = "exited" => icDir = None

\* git clone, git fetch, git checkout: the version-control commands among
\* the step lines
VersionControl(line) == line \in { "git checkout -" }

\* C16: a plan written to build-steps.json has no version-control command
\* among its steps, and the build script runs none.
C16_NoVersionControlInPlan ==
    /\ Wrote("build-steps.json") =>
          \A k \in 1..Len(The(buildStepsJson).steps) :
             \A j \in 1..Len(The(buildStepsJson).steps[k]) :
                ~VersionControl(The(buildStepsJson).steps[k][j])
    /\ \A k \in 1..Len(executed) : ~VersionControl(executed[k].line)

\* C17: in every run, the commit the build script checks out, and the commit
\* the artifact it copies was built from, is the commitHash of proposal.json.
C17_BuildsProposalCommit ==
    /\ sh.fetched => sh.COMMIT_HASH = The(proposalJson).commitHash
    /\ Wrote("output/canister.wasm") =>
          The(outputWasm).commit = The(proposalJson).commitHash

\* C18: after a run whose build script exited nonzero there is no file at
\* output/canister.wasm.
C18_NoArtifactAfterFailedBuild ==
    (sh.pc = "exited" /\ Failed(exitCode.build)) => outputWasm = None


====
